---- MODULE Spec2Model ----
(***************************************************************************)
(* Collection pipeline of azure-resourcemanager-exporter.                  *)
(*                                                                         *)
(* Collectors (Resources, Database, Iam, GraphApps) page through provider  *)
(* lists, stage rows in MetricsLists and publish them into prometheus      *)
(* GaugeVecs.  Resources/Database/Iam hand closures `func() { list.GaugeSet*)
(* (gauge) }` to a completion channel; GraphApps publishes by itself.      *)
(***************************************************************************)
EXTENDS Integers, Sequences, FiniteSets, TLC

VARIABLES
    collector,      \* the collector driven by this scheduler instance
    tickState,      \* "Idle" | "Running" | "Succeeded" | "Failed"
    scopes,         \* subscriptions enumerated for the running tick
    bound,          \* concurrency bound K of the scope iterator for the tick
    provider,       \* provider answer per scope: a sequence of pages of ids
    cancelled,      \* the tick-scoped context has been cancelled
    pub,            \* publisher name -> set of series [labels, value]
    prePub,         \* pub as it was when the running tick started
    started,        \* scopes whose worker has been spawned in this tick
    invoked,        \* scope -> number of worker invocations in this tick
    wpc,            \* scope -> position of its worker
    wlist,          \* scope -> publisher name -> MetricsList being built
    wids,           \* scope -> principal ids gathered by collectRoleAssignments
    chan,           \* completion channel: closures in flight
    callbackList,   \* closures received by the consumer, in channel order
    cpc,            \* position of the consumer
    failure,        \* an escalated failure (panic) happened in this tick
    fetchErr,       \* scopes that saw a provider call return an error
    emitted,        \* log of the closures sent in this tick
    mutator,        \* who made the latest publisher mutation of this tick
    mlist,          \* MetricsList under construction (list algebra)
    gauge,          \* a GaugeVec on its own (list algebra)
    gbefore,        \* gauge as it was before the latest operation on it
    lop,            \* latest operation of the list algebra
    principalIdList,\* collectPrincipals on its own: its argument
    csize,          \* the chunk size the loop runs with
    ci,             \* the loop variable i
    batches,        \* the ObjectIds of the lookups made so far
    looked,         \* the objects the type switch has gone through so far
    infoMetric,     \* the principal MetricsList
    ppc             \* "idle" | "loop" | "sent" | "panic"

vars == << collector, tickState, scopes, bound, provider, cancelled, pub,
           prePub, started, invoked, wpc, wlist, wids, chan, callbackList,
           cpc, failure, fetchErr, emitted, mutator, mlist, gauge, gbefore,
           lop, principalIdList, csize, ci, batches, looked, infoMetric, ppc >>

pipeVars == << collector, tickState, scopes, bound, provider, cancelled, pub,
               prePub, started, invoked, wpc, wlist, wids, chan,
               callbackList, cpc, failure, fetchErr, emitted, mutator >>

chunkVars == << principalIdList, csize, ci, batches, looked, infoMetric, ppc >>

listVars == << mlist, gauge, gbefore, lop, chunkVars >>

(***************************************************************************)
(* Bounds                                                                  *)
(***************************************************************************)
MaxK == 2          \* largest concurrency bound a tick may be given
ChanCap == 0       \* capacity of the completion channel (0: unbuffered)
MaxLen == 3        \* longest MetricsList built in the list algebra
MaxChunk == 2      \* largest chunk size collectPrincipals is run with on its own

\* "azure limits objects ids": size of one GetObjectsByObjectIds batch
chunkSize == 999

(***************************************************************************)
(* MetricsList and GaugeVec                                                *)
(***************************************************************************)
\* a nil pointer; a value that is present is a one-element sequence
Nil == << >>

\* time.Time values are milliseconds; Unix() truncates to whole seconds
Unix(t) == t \div 1000

NewMetricsList == << >>

Add(list, labels, value) == Append(list, [labels |-> labels, value |-> value])

AddInfo(list, labels) == Add(list, labels, 1)

AddTime(list, labels, t) == Add(list, labels, Unix(t))

\* With(labels).Set(value) that leaves an existing series as it is
WithSetKeepFirst(g, labels, value) ==
    IF \E r \in g : r.labels = labels
    THEN g
    ELSE g \cup {[labels |-> labels, value |-> value]}

\* gauge.With(labels).Set(value): create the series or overwrite its value
WithSet(g, labels, value) ==
    {r \in g : r.labels # labels} \cup {[labels |-> labels, value |-> value]}

RECURSIVE GaugeSetFrom(_, _, _)
GaugeSetFrom(list, g, i) ==
    IF i > Len(list) THEN g
    ELSE GaugeSetFrom(list, WithSet(g, list[i].labels, list[i].value), i + 1)

\* a GaugeSet that first drops the series the gauge holds
GaugeSetReplace(list, g) == GaugeSetFrom(list, {}, 1)

\* MetricsList.GaugeSet(gauge): one With(labels).Set(value) per row, in order
GaugeSet(list, g) == GaugeSetFrom(list, g, 1)

\* a Reset() that deletes nothing
GaugeResetNoop(g) == g

\* GaugeVec.Reset(): delete every series
GaugeReset(g) == {}

(***************************************************************************)
(* Provider data                                                           *)
(***************************************************************************)
Subscriptions == {"s1", "s2"}

\* the graph collector is not per subscription: it lists the tenant's apps
Tenant == "tenant"

Collectors == {"resources", "database", "iam", "graphapps"}

Publishers == {"resourceGroup", "resource", "database", "databaseStatus",
               "roleDefinition", "roleAssignment", "principal",
               "apps", "appsCredentials"}

\* what the provider's list can answer for a scope: a sequence of pages of ids
\* (no rows, one page, two pages; the role lists are either empty or paged)
PageChoices(c, s) ==
    LET first  == IF s = "s2" THEN "b" ELSE "a"
        second == IF s = "s2" THEN "a" ELSE "b"
    IN  IF c = "iam"
        THEN { << << >> >>, << << first >>, << second >> >> }
        ELSE { << << >> >>, << << first >> >>, << << first >>, << second >> >> }

RECURSIVE Flatten(_)
Flatten(pages) ==
    IF pages = << >> THEN << >> ELSE Head(pages) \o Flatten(Tail(pages))

Range(seq) == {seq[i] : i \in 1..Len(seq)}

\* database servers as the provider describes them
ServerOf(id) ==
    [ retention |-> 7,
      restore   |-> IF id = "a" THEN << 1500 >> ELSE Nil,
      replica   |-> IF id = "a" THEN Nil ELSE << 2 >>,
      storageMB |-> 1 ]

\* principal a role assignment refers to, and the directory object behind it
PrincipalOf(s, id) == IF s = "s2" /\ id = "b" THEN "p2" ELSE "p1"

DirKind(pid) ==
    CASE pid = "p1" -> "User"
      [] pid = "p3" -> "Group"
      [] OTHER      -> "Device"

KnownKinds == {"Group", "Application", "ServicePrincipal", "User"}

\* graph applications with their credentials
AppOf(id) ==
    [ password |-> IF id = "a"
                   THEN << [key |-> "k1", start |-> << 1000 >>, end |-> << 2500 >>] >>
                   ELSE Nil,
      keys     |-> IF id = "a"
                   THEN Nil
                   ELSE << [key |-> "k2", start |-> Nil, end |-> << 3999 >>] >> ]

(***************************************************************************)
(* Labels                                                                  *)
(***************************************************************************)
ResourceGroupLabels(s, id) == [resourceID |-> id, subscriptionID |-> s]

ResourceLabels(s, id) ==
    [subscriptionID |-> s, resourceID |-> id, resourceName |-> id]

DatabaseLabels(s, id, engine) ==
    [resourceID |-> << engine, id >>, subscriptionID |-> s, type |-> engine]

StatusLabels(rid, type) == [resourceID |-> rid, type |-> type]

RoleDefinitionLabels(s, id) == [subscriptionID |-> s, roleDefinitionID |-> id]

RoleAssignmentLabels(s, id) ==
    [subscriptionID |-> s, roleAssignmentID |-> id,
     principalID |-> PrincipalOf(s, id)]

PrincipalLabels(s, pid) ==
    [subscriptionID |-> s, principalID |-> pid, principalType |-> DirKind(pid)]

AppLabels(id) == [appAppID |-> id, appObjectID |-> id]

CredentialLabels(id, key, ctype, type) ==
    [appAppID |-> id, credentialID |-> key, credentialType |-> ctype,
     type |-> type]

(***************************************************************************)
(* Collectors: what each one is made of                                    *)
(***************************************************************************)
\* the sub-collections a Collect runs for one scope, in order
Passes(c) ==
    CASE c = "resources" -> << "resourceGroup", "resource" >>
      [] c = "database"  -> << "postgresql", "mysql" >>
      [] c = "iam"       -> << "roleDefinition", "roleAssignment" >>
      [] c = "graphapps" -> << "apps" >>

\* the gauges a sub-collection stages a MetricsList for, in GaugeSet order
Targets(pass) ==
    CASE pass = "resourceGroup"  -> << "resourceGroup" >>
      [] pass = "resource"       -> << "resource" >>
      [] pass = "postgresql"     -> << "database", "databaseStatus" >>
      [] pass = "mysql"          -> << "database", "databaseStatus" >>
      [] pass = "roleDefinition" -> << "roleDefinition" >>
      [] pass = "roleAssignment" -> << "roleAssignment" >>
      [] pass = "principal"      -> << "principal" >>
      [] pass = "apps"           -> << "apps", "appsCredentials" >>

\* a Reset() that resets only the first gauge of the collector
ResetOfFirst(c) ==
    CASE c = "resources" -> << "resource" >>
      [] c = "database"  -> << "database" >>
      [] c = "iam"       -> << "roleDefinition" >>
      [] c = "graphapps" -> << >>

\* the gauge.Reset() statements of the collector's Reset(), in order
ResetOf(c) ==
    CASE c = "resources" -> << "resource", "resourceGroup" >>
      [] c = "database"  -> << "database", "databaseStatus" >>
      [] c = "iam"       -> << "roleDefinition", "roleAssignment", "principal" >>
      [] c = "graphapps" -> << >>

\* the gauges a collector registers in Setup
Owned(c) ==
    CASE c = "resources" -> {"resource", "resourceGroup"}
      [] c = "database"  -> {"database", "databaseStatus"}
      [] c = "iam"       -> {"roleDefinition", "roleAssignment", "principal"}
      [] c = "graphapps" -> {"apps", "appsCredentials"}

(***************************************************************************)
(* Building the MetricsLists                                               *)
(***************************************************************************)
RECURSIVE AddInfoAll(_, _)
AddInfoAll(list, labelSeq) ==
    IF labelSeq = << >> THEN list
    ELSE AddInfoAll(AddInfo(list, Head(labelSeq)), Tail(labelSeq))

\* labels of one page of a paged sub-collection
PageLabels(pass, s, ids) ==
    [i \in 1..Len(ids) |->
        CASE pass = "resourceGroup"  -> ResourceGroupLabels(s, ids[i])
          [] pass = "resource"       -> ResourceLabels(s, ids[i])
          [] pass = "roleDefinition" -> RoleDefinitionLabels(s, ids[i])
          [] pass = "roleAssignment" -> RoleAssignmentLabels(s, ids[i])]

\* loop body of collectAzureDatabasePostgresql / collectAzureDatabaseMysql
ServerStatus(status, rid, srv) ==
    LET s1 == Add(status, StatusLabels(rid, "backupRetentionDays"), srv.retention)
        s2 == IF srv.restore # Nil
              THEN AddTime(s1, StatusLabels(rid, "earliestRestoreDate"), srv.restore[1])
              ELSE s1
        s3 == IF srv.replica # Nil
              THEN Add(s2, StatusLabels(rid, "replicaCapacity"), srv.replica[1])
              ELSE s2
    IN  Add(s3, StatusLabels(rid, "storage"), srv.storageMB * 1048576)

RECURSIVE ServerRows(_, _, _, _)
ServerRows(lists, engine, s, ids) ==
    IF ids = << >> THEN lists
    ELSE LET id   == Head(ids)
             info == IF engine = "postgresql"
                     THEN Add(lists.database, DatabaseLabels(s, id, engine), 1)
                     ELSE AddInfo(lists.database, DatabaseLabels(s, id, engine))
         IN  ServerRows(
                 [database       |-> info,
                  databaseStatus |-> ServerStatus(lists.databaseStatus,
                                                  << engine, id >>, ServerOf(id))],
                 engine, s, Tail(ids))

\* credential loops of MetricsCollectorGraphApps.Collect
RECURSIVE CredentialRows(_, _, _, _)
CredentialRows(list, id, ctype, creds) ==
    IF creds = << >> THEN list
    ELSE LET c  == Head(creds)
             l1 == IF c.start # Nil
                   THEN AddTime(list, CredentialLabels(id, c.key, ctype, "startDate"),
                                c.start[1])
                   ELSE list
             l2 == IF c.end # Nil
                   THEN AddTime(l1, CredentialLabels(id, c.key, ctype, "endDate"),
                                c.end[1])
                   ELSE l1
         IN  CredentialRows(l2, id, ctype, Tail(creds))

RECURSIVE AppRows(_, _)
AppRows(lists, ids) ==
    IF ids = << >> THEN lists
    ELSE LET id == Head(ids)
             c1 == CredentialRows(lists.appsCredentials, id, "password",
                                  AppOf(id).password)
             c2 == CredentialRows(c1, id, "key", AppOf(id).keys)
         IN  AppRows([apps            |-> AddInfo(lists.apps, AppLabels(id)),
                      appsCredentials |-> c2],
                     Tail(ids))

\* infoLabels after `infoLabels = nil` and the type switch on one object
InfoLabels(s, pid) ==
    IF DirKind(pid) \in KnownKinds THEN << PrincipalLabels(s, pid) >> ELSE Nil

\* an object loop without `infoLabels = nil`: after an object of no known kind
\* infoLabels still points to the labels of the object before
RECURSIVE PrincipalRowsStale(_, _, _)
PrincipalRowsStale(list, s, pids) ==
    IF pids = << >> THEN list
    ELSE PrincipalRowsStale(
             IF DirKind(Head(pids)) \in KnownKinds
             THEN AddInfo(list, PrincipalLabels(s, Head(pids)))
             ELSE IF list # << >> THEN AddInfo(list, list[Len(list)].labels)
                  ELSE list,
             s, Tail(pids))

\* the object loop of collectPrincipals: a row for the four known kinds only
RECURSIVE PrincipalRows(_, _, _)
PrincipalRows(list, s, pids) ==
    IF pids = << >> THEN list
    ELSE PrincipalRows(
             IF InfoLabels(s, Head(pids)) # Nil
             THEN AddInfo(list, InfoLabels(s, Head(pids))[1])
             ELSE list,
             s, Tail(pids))

\* a range over the map that delivers every value twice
OrdersTwice(S) ==
    {q \o q : q \in {r \in [1..Cardinality(S) -> S] :
                        \A x \in S : \E i \in DOMAIN r : r[i] = x}}

\* the orders in which ranging over a Go map can deliver its values
Orders(S) ==
    {q \in [1..Cardinality(S) -> S] : \A x \in S : \E i \in DOMAIN q : q[i] = x}

(***************************************************************************)
(* State                                                                   *)
(***************************************************************************)
AllScopes == Subscriptions \cup {Tenant}

IdlePc == [pass |-> 0, at |-> "idle", page |-> 0]

NoLists == [p \in {} |-> << >>]

ConsumerIdle == [at |-> "drain", i |-> 0, j |-> 0]

Init ==
    /\ collector \in Collectors
    /\ tickState = "Idle"
    /\ scopes = {}
    /\ bound = 1
    /\ provider = [s \in AllScopes |-> << << >> >>]
    /\ cancelled = FALSE
    /\ pub = [p \in Publishers |-> {}]
    /\ prePub = [p \in Publishers |-> {}]
    /\ started = {}
    /\ invoked = [s \in AllScopes |-> 0]
    /\ wpc = [s \in AllScopes |-> IdlePc]
    /\ wlist = [s \in AllScopes |-> NoLists]
    /\ wids = [s \in AllScopes |-> << >>]
    /\ chan = << >>
    /\ callbackList = << >>
    /\ cpc = ConsumerIdle
    /\ failure = FALSE
    /\ fetchErr = {}
    /\ emitted = << >>
    /\ mutator = "none"
    /\ mlist = NewMetricsList
    /\ gauge = {}
    /\ gbefore = {}
    /\ lop = "none"
    /\ principalIdList = << >>
    /\ csize = chunkSize
    /\ ci = 0
    /\ batches = << >>
    /\ looked = << >>
    /\ infoMetric = NewMetricsList
    /\ ppc = "idle"

\* workers that were spawned and have not returned
InFlight == {s \in started : wpc[s].at \notin {"done", "panic"}}

CurPass(s) == Passes(collector)[wpc[s].pass]

NewLists(pass) == [p \in Range(Targets(pass)) |-> NewMetricsList]

Working(s) ==
    /\ tickState = "Running"
    /\ s \in started
    /\ ~failure

(***************************************************************************)
(* Scheduler and scope iterator                                            *)
(***************************************************************************)
\* a tick begins: the scope list is refreshed and the provider has new data
TickStart ==
    /\ tickState = "Idle"
    /\ tickState' = "Running"
    /\ \E sc \in (IF collector = "graphapps"
                  THEN {{Tenant}}
                  ELSE (SUBSET Subscriptions) \ {{}}) :
          /\ scopes' = sc
          /\ provider' \in
                {d \in [AllScopes -> UNION {PageChoices(collector, s) : s \in AllScopes}] :
                    \A s \in AllScopes :
                        d[s] \in (IF s \in sc THEN PageChoices(collector, s)
                                              ELSE {<< << >> >>})}
    /\ \E k \in 1..MaxK : bound' = k
    /\ cancelled' = FALSE
    /\ prePub' = pub
    /\ started' = {}
    /\ invoked' = [s \in AllScopes |-> 0]
    /\ wpc' = [s \in AllScopes |-> IdlePc]
    /\ wlist' = [s \in AllScopes |-> NoLists]
    /\ wids' = [s \in AllScopes |-> << >>]
    /\ chan' = << >>
    /\ callbackList' = << >>
    /\ cpc' = ConsumerIdle
    /\ failure' = FALSE
    /\ fetchErr' = {}
    /\ emitted' = << >>
    /\ mutator' = "none"
    /\ UNCHANGED << collector, pub, listVars >>

\* a forEach that starts every worker at once
SpawnUnbounded(s) ==
    /\ tickState = "Running"
    /\ ~failure
    /\ s \in scopes \ started
    /\ started' = started \cup {s}
    /\ invoked' = [invoked EXCEPT ![s] = @ + 1]
    /\ wpc' = [wpc EXCEPT ![s] = [pass |-> 1, at |-> "open", page |-> 0]]
    /\ UNCHANGED << collector, tickState, scopes, bound, provider, cancelled,
                    pub, prePub, wlist, wids, chan, callbackList, cpc, failure,
                    fetchErr, emitted, mutator, listVars >>

\* forEach starts the worker of one more scope when fewer than K are running
Spawn(s) ==
    /\ tickState = "Running"
    /\ ~failure
    /\ s \in scopes \ started
    /\ Cardinality(InFlight) < bound
    /\ started' = started \cup {s}
    /\ invoked' = [invoked EXCEPT ![s] = @ + 1]
    /\ wpc' = [wpc EXCEPT ![s] = [pass |-> 1, at |-> "open", page |-> 0]]
    /\ UNCHANGED << collector, tickState, scopes, bound, provider, cancelled,
                    pub, prePub, wlist, wids, chan, callbackList, cpc, failure,
                    fetchErr, emitted, mutator, listVars >>

\* the tick-scoped context is cancelled while invocations are in flight
Cancel ==
    /\ tickState = "Running"
    /\ ~cancelled
    /\ ~failure
    /\ InFlight # {}
    /\ cancelled' = TRUE
    /\ UNCHANGED << collector, tickState, scopes, bound, provider, pub, prePub,
                    started, invoked, wpc, wlist, wids, chan, callbackList, cpc, failure,
                    fetchErr, emitted, mutator, listVars >>

(***************************************************************************)
(* Workers                                                                 *)
(***************************************************************************)
\* a failed invocation that ends without the failure reaching the iteration
PanicIgnored(s) ==
    /\ wpc' = [wpc EXCEPT ![s].at = "panic"]
    /\ fetchErr' = fetchErr \cup {s}
    /\ UNCHANGED << failure, tickState, wlist, wids, chan, callbackList >>

\* logger.Panic(err): the invocation ends and the failure escalates
\* the closures sent so far are dropped with the abandoned tick
Panic(s) ==
    /\ wpc' = [wpc EXCEPT ![s].at = "panic"]
    /\ failure' = TRUE
    /\ fetchErr' = fetchErr \cup {s}
    /\ tickState' = "Failed"
    /\ wlist' = [x \in AllScopes |-> NoLists]
    /\ wids' = [x \in AllScopes |-> << >>]
    /\ chan' = << >>
    /\ callbackList' = << >>

\* the invocation goes on: nothing escalates
Goes == UNCHANGED << failure, tickState, chan, callbackList >>

workerFrame == << collector, scopes, bound, provider, cancelled, pub, prePub,
                  started, invoked, cpc, emitted, mutator, listVars >>

\* armresources.NewResourceGroupsClient / armresources.NewClient
NewClient(s) ==
    /\ Working(s)
    /\ collector = "resources"
    /\ wpc[s].at = "open"
    /\ \/ /\ wpc' = [wpc EXCEPT ![s].at = "loop", ![s].page = 0]
          /\ wlist' = [wlist EXCEPT ![s] = NewLists(CurPass(s))]
          /\ Goes
          /\ UNCHANGED << fetchErr, wids >>
       \/ Panic(s)
    /\ UNCHANGED workerFrame

\* for pager.More() { pager.NextPage(m.Context()) ... AddInfo ... }
NextPage(s) ==
    /\ Working(s)
    /\ collector = "resources"
    /\ wpc[s].at = "loop"
    /\ LET n    == wpc[s].page + 1
           pass == CurPass(s)
           tgt  == Targets(pass)[1]
       IN  \/ /\ ~cancelled
              /\ wlist' = [wlist EXCEPT ![s][tgt] =
                              AddInfoAll(@, PageLabels(pass, s, provider[s][n]))]
              /\ wpc' = [wpc EXCEPT ![s].page = n,
                                    ![s].at = IF n = Len(provider[s])
                                              THEN "send" ELSE "loop"]
              /\ Goes
              /\ UNCHANGED << fetchErr, wids >>
           \/ Panic(s)
    /\ UNCHANGED workerFrame

\* client.List(ctx) and the loop over *list.Value of the database sub-collections
DbList(s) ==
    /\ Working(s)
    /\ collector = "database"
    /\ wpc[s].at = "open"
    /\ \/ /\ ~cancelled
          /\ wlist' = [wlist EXCEPT ![s] =
                          ServerRows(NewLists(CurPass(s)), CurPass(s), s,
                                     Flatten(provider[s]))]
          /\ wpc' = [wpc EXCEPT ![s].at = "send"]
          /\ Goes
          /\ UNCHANGED << fetchErr, wids >>
       \/ Panic(s)
    /\ UNCHANGED workerFrame

\* client.ListComplete(ctx, ...): the iterator comes back with its first page
ListComplete(s) ==
    /\ Working(s)
    /\ collector = "iam"
    /\ wpc[s].at = "open"
    /\ \/ /\ ~cancelled
          /\ wlist' = [wlist EXCEPT ![s] = NewLists(CurPass(s))]
          /\ wpc' = [wpc EXCEPT ![s].at = "loop", ![s].page = 1]
          /\ Goes
          /\ UNCHANGED << fetchErr, wids >>
       \/ Panic(s)
    /\ UNCHANGED workerFrame

\* where the list loop of an Iam sub-collection leaves to
LoopExit(s, lists) ==
    IF CurPass(s) = "roleAssignment"
    THEN \E order \in Orders({l.principalID : l \in
                                {r.labels : r \in Range(lists.roleAssignment)}}) :
            /\ wids' = [wids EXCEPT ![s] = order]
            /\ wlist' = [wlist EXCEPT ![s] =
                            [p \in {"roleAssignment", "principal"} |->
                                IF p = "principal" THEN NewMetricsList
                                ELSE lists.roleAssignment]]
            /\ wpc' = [wpc EXCEPT ![s].page = 0,
                                  ![s].at = IF 0 < Len(order)
                                            THEN "principals"
                                            ELSE "sendPrincipal"]
    ELSE /\ wlist' = [wlist EXCEPT ![s] = lists]
         /\ wpc' = [wpc EXCEPT ![s].at = "send"]
         /\ UNCHANGED wids

\* for list.NotDone() { ... AddInfo ...; if list.NextWithContext(ctx) != nil { break } }
\* one step takes the rows of the loaded page and asks for the next page
NextWithContext(s) ==
    /\ Working(s)
    /\ collector = "iam"
    /\ wpc[s].at = "loop"
    /\ LET n     == wpc[s].page
           pass  == CurPass(s)
           lists == [wlist[s] EXCEPT ![pass] =
                        AddInfoAll(@, PageLabels(pass, s, provider[s][n]))]
       IN  \/ /\ n < Len(provider[s])
              /\ ~cancelled
              /\ wlist' = [wlist EXCEPT ![s] = lists]
              /\ wpc' = [wpc EXCEPT ![s].page = n + 1]
              /\ UNCHANGED << wids, fetchErr >>
           \/ /\ n < Len(provider[s])
              /\ fetchErr' = fetchErr \cup {s}
              /\ LoopExit(s, lists)
           \/ /\ n = Len(provider[s])
              /\ LoopExit(s, lists)
              /\ UNCHANGED fetchErr
    /\ Goes
    /\ UNCHANGED workerFrame

Min(a, b) == IF a < b THEN a ELSE b

\* a slice end that stops one short
ChunkEndShort(i, c, n) == Min(i + c, n) - 1

\* end := i + chunkSize; if end > len(principalIdList) { end = len(principalIdList) }
ChunkEnd(i, c, n) == Min(i + c, n)

\* one turn of the chunk loop of collectPrincipals:
\* GetObjectsByObjectIdsComplete on principalIdList[i:end], then the type switch
GetObjects(s) ==
    /\ Working(s)
    /\ collector = "iam"
    /\ wpc[s].at = "principals"
    /\ LET i     == wpc[s].page
           end   == ChunkEnd(i, chunkSize, Len(wids[s]))
           chunk == SubSeq(wids[s], i + 1, end)
           turn  == wpc' = [wpc EXCEPT ![s].page = i + chunkSize,
                                       ![s].at = IF i + chunkSize < Len(wids[s])
                                                 THEN "principals"
                                                 ELSE "sendPrincipal"]
       IN  \/ /\ ~cancelled
              /\ wlist' = [wlist EXCEPT ![s].principal = PrincipalRows(@, s, chunk)]
              /\ turn
              /\ Goes
              /\ UNCHANGED << fetchErr, wids >>
           \* if list.NextWithContext(ctx) != nil { break }: the objects read so
           \* far stay in the list and the chunk loop goes on
           \/ /\ \E k \in 1..(Len(chunk) - 1) :
                    wlist' = [wlist EXCEPT ![s].principal =
                                 PrincipalRows(@, s, SubSeq(chunk, 1, k))]
              /\ fetchErr' = fetchErr \cup {s}
              /\ turn
              /\ Goes
              /\ UNCHANGED wids
           \/ Panic(s)
    /\ UNCHANGED workerFrame

\* a closure that sets only the first of the lists of its sub-collection
ClosureFirstOnly(s, name) ==
    [scope |-> s,
     pass  |-> name,
     calls |-> << [list  |-> wlist[s][Targets(name)[1]],
                   gauge |-> Targets(name)[1]] >>]

\* the closure `func() { list.GaugeSet(gauge) ... }` of a sub-collection
Closure(s, name) ==
    [scope |-> s,
     pass  |-> name,
     calls |-> [k \in 1..Len(Targets(name)) |->
                   [list  |-> wlist[s][Targets(name)[k]],
                    gauge |-> Targets(name)[k]]]]

\* a worker that runs the same sub-collection again after sending its closure
AfterSendAgain(s, at) ==
    [pass |-> wpc[s].pass, at |-> "open", page |-> 0]

\* a worker that goes back into the list loop after sending its closure
AfterSendRewrite(s, at) ==
    [wpc[s] EXCEPT !.at = "loop", !.page = IF collector = "iam" THEN 1 ELSE 0]

\* where a worker goes once its send has completed
AfterSend(s, at) ==
    IF at = "sendPrincipal"
    THEN [wpc[s] EXCEPT !.at = "send"]
    ELSE IF wpc[s].pass < Len(Passes(collector))
         THEN [pass |-> wpc[s].pass + 1, at |-> "open", page |-> 0]
         ELSE [wpc[s] EXCEPT !.at = "done"]

\* callback <- func() { ... }: the send completes at once when the buffer has
\* room; otherwise the sender stays blocked until the consumer receives
Send(s) ==
    /\ Working(s)
    /\ wpc[s].at \in {"send", "sendPrincipal"}
    /\ Len(chan) <= ChanCap
    /\ LET name == IF wpc[s].at = "sendPrincipal" THEN "principal" ELSE CurPass(s)
       IN  /\ chan' = Append(chan, Closure(s, name))
           /\ emitted' = Append(emitted, Closure(s, name))
    /\ wpc' = [wpc EXCEPT ![s] =
                  IF Len(chan) < ChanCap
                  THEN AfterSend(s, wpc[s].at)
                  ELSE [@ EXCEPT !.at = IF wpc[s].at = "sendPrincipal"
                                        THEN "blockedPrincipal" ELSE "blocked"]]
    /\ UNCHANGED << collector, tickState, scopes, bound, provider, cancelled,
                    pub, prePub, started, invoked, wlist, wids, callbackList, cpc,
                    failure, fetchErr, mutator, listVars >>

\* m.client.List(context.Background(), filter) and the loop over list.Values()
GraphList(s) ==
    /\ Working(s)
    /\ collector = "graphapps"
    /\ wpc[s].at = "open"
    /\ \/ /\ wlist' = [wlist EXCEPT ![s] =
                          AppRows(NewLists("apps"), Head(provider[s]))]
          /\ wpc' = [wpc EXCEPT ![s].at = "publish", ![s].page = 1]
          /\ Goes
          /\ UNCHANGED << fetchErr, wids >>
       \/ Panic(s)
    /\ UNCHANGED workerFrame

\* the four closing statements of MetricsCollectorGraphApps.Collect
GraphPublish(s) ==
    /\ Working(s)
    /\ collector = "graphapps"
    /\ wpc[s].at = "publish"
    /\ LET k == wpc[s].page
       IN  /\ pub' = CASE k = 1 -> [pub EXCEPT !.apps = GaugeReset(@)]
                       [] k = 2 -> [pub EXCEPT !.appsCredentials = GaugeReset(@)]
                       [] k = 3 -> [pub EXCEPT !.apps = GaugeSet(wlist[s].apps, @)]
                       [] k = 4 -> [pub EXCEPT !.appsCredentials =
                                       GaugeSet(wlist[s].appsCredentials, @)]
           /\ wpc' = [wpc EXCEPT ![s] = IF k < 4
                                        THEN [@ EXCEPT !.page = k + 1]
                                        ELSE [@ EXCEPT !.at = "done"]]
    /\ mutator' = "worker"
    /\ UNCHANGED << collector, tickState, scopes, bound, provider, cancelled,
                    prePub, started, invoked, wlist, wids, chan, callbackList, cpc,
                    failure, fetchErr, emitted, listVars >>

(***************************************************************************)
(* Consumer of the completion channel                                      *)
(***************************************************************************)
consumerFrame == << collector, scopes, bound, provider, cancelled, prePub,
                    started, invoked, wpc, wlist, wids, failure, fetchErr, emitted,
                    listVars >>

\* a receive that leaves the sender waiting
RecvNoWake ==
    /\ tickState = "Running"
    /\ ~failure
    /\ cpc.at = "drain"
    /\ chan # << >>
    /\ callbackList' = Append(callbackList, Head(chan))
    /\ chan' = Tail(chan)
    /\ UNCHANGED << collector, scopes, bound, provider, cancelled, prePub,
                    started, invoked, wlist, wids, failure, fetchErr, emitted, listVars,
                    tickState, pub, cpc, mutator, wpc >>

\* the consumer takes the next closure off the channel; a sender blocked on a
\* full channel gets through
Recv ==
    /\ tickState = "Running"
    /\ ~failure
    /\ cpc.at = "drain"
    /\ chan # << >>
    /\ callbackList' = Append(callbackList, Head(chan))
    /\ chan' = Tail(chan)
    /\ wpc' = [s \in AllScopes |->
                  CASE wpc[s].at = "blocked" -> AfterSend(s, "send")
                    [] wpc[s].at = "blockedPrincipal" -> AfterSend(s, "sendPrincipal")
                    [] OTHER -> wpc[s]]
    /\ UNCHANGED << collector, scopes, bound, provider, cancelled, prePub,
                    started, invoked, wlist, wids, failure, fetchErr, emitted, listVars,
                    tickState, pub, cpc, mutator >>

\* every worker returned without failure: the channel is closed
Close ==
    /\ tickState = "Running"
    /\ collector # "graphapps"
    /\ ~failure
    /\ ~cancelled
    /\ started = scopes
    /\ InFlight = {}
    /\ chan = << >>
    /\ cpc.at = "drain"
    /\ cpc' = [at |-> "reset", i |-> 1, j |-> 0]
    /\ wlist' = [s \in AllScopes |-> NoLists]
    /\ wids' = [s \in AllScopes |-> << >>]
    /\ UNCHANGED << collector, scopes, bound, provider, cancelled, prePub,
                    started, invoked, wpc, failure, fetchErr, emitted, listVars,
                    tickState, pub, chan, callbackList, mutator >>

\* Reset(): one gauge.Reset() statement
ResetStep ==
    /\ tickState = "Running"
    /\ cpc.at = "reset"
    /\ LET p == ResetOf(collector)[cpc.i]
       IN  pub' = [pub EXCEPT ![p] = GaugeReset(@)]
    /\ cpc' = IF cpc.i < Len(ResetOf(collector))
              THEN [cpc EXCEPT !.i = @ + 1]
              ELSE [at |-> "run", i |-> 1, j |-> 1]
    /\ mutator' = "consumer"
    /\ UNCHANGED << consumerFrame, tickState, chan, callbackList >>

\* the consumer runs the next GaugeSet statement of the closures it received
RunCall ==
    /\ tickState = "Running"
    /\ cpc.at = "run"
    /\ cpc.i <= Len(callbackList)
    /\ LET call == callbackList[cpc.i].calls[cpc.j]
       IN  pub' = [pub EXCEPT ![call.gauge] = GaugeSet(call.list, @)]
    /\ cpc' = IF cpc.j < Len(callbackList[cpc.i].calls)
              THEN [cpc EXCEPT !.j = @ + 1]
              ELSE [cpc EXCEPT !.i = @ + 1, !.j = 1]
    /\ mutator' = "consumer"
    /\ UNCHANGED << consumerFrame, tickState, chan, callbackList >>

schedFrame == << collector, scopes, bound, provider, cancelled, pub, prePub,
                 started, invoked, wpc, wlist, wids, chan, callbackList, failure,
                 fetchErr, emitted, mutator, listVars >>

\* all closures ran: the tick succeeded
TickSucceed ==
    /\ tickState = "Running"
    /\ cpc.at = "run"
    /\ cpc.i > Len(callbackList)
    /\ tickState' = "Succeeded"
    /\ cpc' = [cpc EXCEPT !.at = "finished"]
    /\ UNCHANGED schedFrame

\* the custom collector returned from Collect
CustomDone ==
    /\ tickState = "Running"
    /\ collector = "graphapps"
    /\ ~failure
    /\ ~cancelled
    /\ started = scopes
    /\ InFlight = {}
    /\ tickState' = "Succeeded"
    /\ UNCHANGED << schedFrame, cpc >>

\* the tick was cancelled and no invocation is left: the tick is abandoned
TickFail ==
    /\ tickState = "Running"
    /\ cancelled
    /\ InFlight = {}
    /\ tickState' = "Failed"
    /\ wlist' = IF collector = "graphapps" THEN wlist
                ELSE [s \in AllScopes |-> NoLists]
    /\ wids' = [s \in AllScopes |-> << >>]
    /\ chan' = << >>
    /\ callbackList' = << >>
    /\ UNCHANGED << collector, scopes, bound, provider, cancelled, pub, prePub,
                    started, invoked, wpc, failure, fetchErr, emitted, mutator,
                    listVars, cpc >>

\* back to Idle until the next tick
TickEnd ==
    /\ tickState \in {"Succeeded", "Failed"}
    /\ tickState' = "Idle"
    /\ scopes' = {}
    /\ bound' = 1
    /\ provider' = [s \in AllScopes |-> << << >> >>]
    /\ cancelled' = FALSE
    /\ prePub' = pub
    /\ started' = {}
    /\ invoked' = [s \in AllScopes |-> 0]
    /\ wpc' = [s \in AllScopes |-> IdlePc]
    /\ wlist' = [s \in AllScopes |-> NoLists]
    /\ wids' = [s \in AllScopes |-> << >>]
    /\ chan' = << >>
    /\ callbackList' = << >>
    /\ cpc' = ConsumerIdle
    /\ failure' = FALSE
    /\ fetchErr' = {}
    /\ emitted' = << >>
    /\ mutator' = "none"
    /\ UNCHANGED << collector, pub, listVars >>

Next ==
    \/ TickStart
    \/ \E s \in AllScopes : Spawn(s)
    \/ Cancel
    \/ \E s \in AllScopes : NewClient(s)
    \/ \E s \in AllScopes : NextPage(s)
    \/ \E s \in AllScopes : DbList(s)
    \/ \E s \in AllScopes : ListComplete(s)
    \/ \E s \in AllScopes : NextWithContext(s)
    \/ \E s \in AllScopes : GetObjects(s)
    \/ \E s \in AllScopes : Send(s)
    \/ \E s \in AllScopes : GraphList(s)
    \/ \E s \in AllScopes : GraphPublish(s)
    \/ Recv
    \/ Close
    \/ ResetStep
    \/ RunCall
    \/ TickSucceed
    \/ CustomDone
    \/ TickFail
    \/ TickEnd

Spec == Init /\ [][Next]_vars

(***************************************************************************)
(* Progress of a tick: the Resources collector under fair scheduling       *)
(***************************************************************************)
InitLive ==
    /\ Init
    /\ collector = "resources"

NextLive ==
    \/ TickStart
    \/ \E s \in AllScopes : Spawn(s)
    \/ Cancel
    \/ \E s \in AllScopes : NewClient(s)
    \/ \E s \in AllScopes : NextPage(s)
    \/ \E s \in AllScopes : Send(s)
    \/ Recv
    \/ Close
    \/ ResetStep
    \/ RunCall
    \/ TickSucceed
    \/ TickFail
    \/ TickEnd

\* the steps of workers, consumer and scheduler inside a tick: goroutines that
\* can run do run, and provider calls return (with a result or an error)
ProgressLive ==
    \/ \E s \in AllScopes : Spawn(s)
    \/ \E s \in AllScopes : NewClient(s)
    \/ \E s \in AllScopes : NextPage(s)
    \/ \E s \in AllScopes : Send(s)
    \/ Recv
    \/ Close
    \/ ResetStep
    \/ RunCall
    \/ TickSucceed
    \/ TickFail

SpecLive == InitLive /\ [][NextLive]_vars /\ WF_vars(ProgressLive)

(***************************************************************************)
(* List algebra: a MetricsList built by any sequence of AddInfo/Add/AddTime*)
(* and a GaugeVec it is set into                                           *)
(***************************************************************************)
\* label sets a list can be given: two that fit the gauge and one that has a
\* key the gauge does not know and lacks the key it has
ListLabels == {[id |-> "a"], [id |-> "b"], [name |-> "a"]}

\* the label names the gauge was created with (NewGaugeVec)
GaugeSchema == {"id"}

\* the rows GaugeSet gets through before With(labels) panics on a label set
\* that does not fit the gauge
RECURSIVE ValidPrefix(_)
ValidPrefix(list) ==
    IF list = << >> \/ DOMAIN Head(list).labels # GaugeSchema
    THEN << >>
    ELSE << Head(list) >> \o ValidPrefix(Tail(list))

ListValues == {2}

ListTimes == {3999}

InitList ==
    /\ Init
    /\ collector = "resources"

LNew ==
    /\ mlist' = NewMetricsList
    /\ lop' = "new"
    /\ gbefore' = gauge
    /\ UNCHANGED << gauge, pipeVars, chunkVars >>

LAddInfo ==
    /\ lop \notin {"set", "panic"}
    /\ Len(mlist) < MaxLen
    /\ \E l \in ListLabels : mlist' = AddInfo(mlist, l)
    /\ lop' = "add"
    /\ gbefore' = gauge
    /\ UNCHANGED << gauge, pipeVars, chunkVars >>

LAdd ==
    /\ lop \notin {"set", "panic"}
    /\ Len(mlist) < MaxLen
    /\ \E l \in ListLabels, v \in ListValues : mlist' = Add(mlist, l, v)
    /\ lop' = "add"
    /\ gbefore' = gauge
    /\ UNCHANGED << gauge, pipeVars, chunkVars >>

LAddTime ==
    /\ lop \notin {"set", "panic"}
    /\ Len(mlist) < MaxLen
    /\ \E l \in ListLabels, tm \in ListTimes : mlist' = AddTime(mlist, l, tm)
    /\ lop' = "add"
    /\ gbefore' = gauge
    /\ UNCHANGED << gauge, pipeVars, chunkVars >>

\* the closure body: list.GaugeSet(gauge); it runs to the end, or panics at the
\* first row whose labels do not fit, the rows before it being set already
LGaugeSet ==
    /\ lop \notin {"set", "panic"}
    /\ gauge' = GaugeSet(ValidPrefix(mlist), gauge)
    /\ gbefore' = gauge
    /\ lop' = IF ValidPrefix(mlist) = mlist THEN "set" ELSE "panic"
    /\ UNCHANGED << mlist, pipeVars, chunkVars >>

\* gauge.Reset()
LReset ==
    /\ gauge' = GaugeReset(gauge)
    /\ gbefore' = gauge'
    /\ lop' = "reset"
    /\ UNCHANGED << mlist, pipeVars, chunkVars >>

NextList ==
    \/ LNew
    \/ LAddInfo
    \/ LAdd
    \/ LAddTime
    \/ LGaugeSet
    \/ LReset

SpecList == InitList /\ [][NextList]_vars

(***************************************************************************)
(* collectPrincipals on its own, as a function of the identifier list and  *)
(* of the chunk size                                                       *)
(***************************************************************************)
PrincipalPool == {"p1", "p2", "p3"}

\* principalIdList comes from ranging over a map: distinct ids, in any order
IdLists == UNION {Orders(S) : S \in SUBSET PrincipalPool}

InitChunk ==
    /\ Init
    /\ collector = "iam"

\* m.collectPrincipals(ctx, logger, callback, subscription, principalIdList)
CollectPrincipals ==
    /\ ppc = "idle"
    /\ principalIdList' \in IdLists
    /\ csize' \in 1..MaxChunk
    /\ ci' = 0
    /\ batches' = << >>
    /\ looked' = << >>
    /\ infoMetric' = NewMetricsList
    /\ ppc' = "loop"
    /\ UNCHANGED << pipeVars, mlist, gauge, gbefore, lop >>

\* one turn of `for i := 0; i < len(principalIdList); i += chunkSize`
ChunkTurn ==
    /\ ppc = "loop"
    /\ ci < Len(principalIdList)
    /\ LET end   == ChunkEnd(ci, csize, Len(principalIdList))
           chunk == SubSeq(principalIdList, ci + 1, end)
       IN  /\ batches' = Append(batches, chunk)
           /\ \/ /\ looked' = looked \o chunk
                 /\ infoMetric' = PrincipalRows(infoMetric, "s1", chunk)
                 /\ ci' = ci + csize
                 /\ ppc' = "loop"
              \* if list.NextWithContext(ctx) != nil { break }
              \/ \E k \in 1..(Len(chunk) - 1) :
                    /\ looked' = looked \o SubSeq(chunk, 1, k)
                    /\ infoMetric' = PrincipalRows(infoMetric, "s1", SubSeq(chunk, 1, k))
                    /\ ci' = ci + csize
                    /\ ppc' = "loop"
              \* GetObjectsByObjectIdsComplete returned an error: logger.Panic(err)
              \/ /\ ppc' = "panic"
                 /\ UNCHANGED << looked, infoMetric, ci >>
    /\ UNCHANGED << pipeVars, mlist, gauge, gbefore, lop, principalIdList, csize >>

\* the loop is over: callback <- func() { infoMetric.GaugeSet(m.prometheus.principal) }
PrincipalSend ==
    /\ ppc = "loop"
    /\ ~(ci < Len(principalIdList))
    /\ ppc' = "sent"
    /\ UNCHANGED << pipeVars, mlist, gauge, gbefore, lop, principalIdList, csize,
                    ci, batches, looked, infoMetric >>

\* the call is over
PrincipalReturn ==
    /\ ppc \in {"sent", "panic"}
    /\ ppc' = "idle"
    /\ UNCHANGED << pipeVars, mlist, gauge, gbefore, lop, principalIdList, csize,
                    ci, batches, looked, infoMetric >>

NextChunk ==
    \/ CollectPrincipals
    \/ ChunkTurn
    \/ PrincipalSend
    \/ PrincipalReturn

SpecChunk == InitChunk /\ [][NextChunk]_vars

(***************************************************************************)
(* Properties                                                              *)
(***************************************************************************)
\* the MetricsLists handed over for gauge p in this tick, in hand-over order
RECURSIVE CallsFor(_, _)
CallsFor(closures, p) ==
    IF closures = << >> THEN << >>
    ELSE SelectSeq(Head(closures).calls, LAMBDA c : c.gauge = p)
         \o CallsFor(Tail(closures), p)

SentLists(p) ==
    IF collector = "graphapps"
    THEN IF wpc[Tenant].at \in {"publish", "done"} THEN << wlist[Tenant][p] >> ELSE << >>
    ELSE [i \in 1..Len(CallsFor(emitted, p)) |-> CallsFor(emitted, p)[i].list]

\* the series a list stands for: per label set, the value added last
Rows(list) ==
    {[labels |-> list[i].labels, value |-> list[i].value] :
        i \in {k \in 1..Len(list) :
                 \A j \in (k + 1)..Len(list) : list[j].labels # list[k].labels}}

LabelsIn(list) == {list[i].labels : i \in 1..Len(list)}

RECURSIVE SetAll(_, _)
SetAll(lists, g) ==
    IF lists = << >> THEN g
    ELSE SetAll(Tail(lists), Rows(Head(lists)) \cup
                             {r \in g : r.labels \notin LabelsIn(Head(lists))})

\* the series gauge p holds once the tick's lists are all published
PostTick(p) == SetAll(SentLists(p), {})

\* the collector has begun to publish the lists of this tick
Publishing ==
    \/ cpc.at \in {"reset", "run", "finished"}
    \/ collector = "graphapps" /\ wpc[Tenant].at \in {"publish", "done"}

\* C1: a reader of a gauge sees, at every moment, the complete pre-tick series
\* set of the gauge or its complete post-tick series set
C1_NoTornRead ==
    \A p \in Owned(collector) :
        \/ pub[p] = prePub[p]
        \/ Publishing /\ pub[p] = PostTick(p)

\* the rows the provider reports for the scopes of the tick, as series of the
\* resource-group gauge
UnionOfScopes ==
    UNION {{[labels |-> ResourceGroupLabels(s, id), value |-> 1] :
               id \in Range(Flatten(provider[s]))} : s \in scopes}

\* C2: after a successful tick of the Resources collector the resource-group
\* gauge holds exactly the rows of all scopes of the tick, each with value 1,
\* in whatever order the scopes' closures went through the channel
C2_UnionAcrossScopes ==
    (tickState = "Succeeded" /\ collector = "resources")
        => pub.resourceGroup = UnionOfScopes

\* scope s1 reported {a}, scope s2 reported {b}, s2's closure came first
C2_Witness ==
    /\ tickState = "Succeeded"
    /\ collector = "resources"
    /\ scopes = {"s1", "s2"}
    /\ provider["s1"] = << << "a" >> >>
    /\ provider["s2"] = << << "b" >> >>
    /\ callbackList[1].scope = "s2"
    /\ pub.resourceGroup =
          {[labels |-> [resourceID |-> "a", subscriptionID |-> "s1"], value |-> 1],
           [labels |-> [resourceID |-> "b", subscriptionID |-> "s2"], value |-> 1]}

\* C3: once a provider call of the tick has returned an error (client
\* creation, page fetch, batch lookup), the tick does not succeed and every
\* gauge keeps the series it had before the tick
C3_AllOrNothing ==
    fetchErr # {} => (tickState # "Succeeded" /\ pub = prePub)

PagedPasses == {"resourceGroup", "resource", "roleDefinition", "roleAssignment"}

\* C4: a closure sent for a paged list carries the rows of every page of it
C4_AllPagesOrNone ==
    \A i \in DOMAIN emitted :
        emitted[i].pass \in PagedPasses
            => Len(emitted[i].calls[1].list)
                   = Len(Flatten(provider[emitted[i].scope]))

\* closures sent by the invocation for scope s
SentBy(s) == SelectSeq(emitted, LAMBDA e : e.scope = s)

\* number of MetricsLists the invocation for scope s handed over for gauge p
SetsFrom(s, p) == Len(CallsFor(SentBy(s), p))

\* C5 as stated: an invocation that returned has handed over exactly one
\* MetricsList for every gauge its collector owns
C5_OncePerPublisher ==
    collector # "graphapps" =>
        \A s \in started :
            wpc[s].at = "done" =>
                \A p \in Owned(collector) : SetsFrom(s, p) = 1

\* C5 amended: an invocation that returned has sent one closure per
\* sub-collection, each with one MetricsList per gauge it targets, so a gauge
\* got one list per sub-collection targeting it: two for the database gauges
\* (PostgreSQL and MySQL), one for every other gauge
C5_OncePerPass ==
    collector # "graphapps" =>
        \A s \in started :
            wpc[s].at = "done" =>
                /\ Len(SentBy(s)) = (IF collector = "iam" THEN 3 ELSE 2)
                /\ \A i \in DOMAIN SentBy(s) :
                      LET calls == SentBy(s)[i].calls
                      IN  Cardinality({calls[k].gauge : k \in DOMAIN calls})
                              = Len(calls)
                /\ \A p \in Owned(collector) :
                      SetsFrom(s, p) = (IF collector = "database" THEN 2 ELSE 1)

\* a database invocation that found no server handed over two empty lists
\* for the database gauge
C5_Witness ==
    /\ collector = "database"
    /\ \E s \in started :
          /\ wpc[s].at = "done"
          /\ Flatten(provider[s]) = << >>
          /\ SetsFrom(s, "database") = 2
          /\ \A i \in DOMAIN SentBy(s) :
                \A k \in DOMAIN SentBy(s)[i].calls :
                    SentBy(s)[i].calls[k].list = << >>

\* C6 as stated: after GaugeSet the gauge holds exactly the rows of the list
C6_ExactReplace ==
    lop = "set" => gauge = Rows(mlist)

\* C6 amended: after GaugeSet the gauge holds one series per distinct label set
\* of the list, with the value added last, and besides these exactly the
\* series it held before under label sets the list does not mention
C6_Upsert ==
    lop = "set" =>
        /\ gauge = Rows(mlist) \cup {r \in gbefore : r.labels \notin LabelsIn(mlist)}
        /\ \A r1, r2 \in gauge : r1.labels = r2.labels => r1 = r2

\* a list with a label set added twice with different values was set into a
\* gauge holding a series the list does not mention
C6_Witness ==
    /\ lop = "set"
    /\ \E r \in gbefore : r.labels \notin LabelsIn(mlist)
    /\ \E i, j \in DOMAIN mlist :
          /\ i < j
          /\ mlist[i].labels = mlist[j].labels
          /\ mlist[i].value # mlist[j].value
          /\ [labels |-> mlist[j].labels, value |-> mlist[j].value] \in gauge

\* the GaugeSet statements the consumer has run so far
RECURSIVE AllCalls(_)
AllCalls(closures) ==
    IF closures = << >> THEN << >>
    ELSE Head(closures).calls \o AllCalls(Tail(closures))

Executed ==
    IF cpc.at \in {"run", "finished"}
    THEN SubSeq(AllCalls(callbackList), 1,
                Len(AllCalls(SubSeq(callbackList, 1, cpc.i - 1))) + cpc.j - 1)
    ELSE << >>

\* C7 as stated: when the consumer has just run the closure of an empty
\* MetricsList, the gauge it names holds no series
C7_EmptyApplyClears ==
    (Executed # << >> /\ Executed[Len(Executed)].list = << >>)
        => pub[Executed[Len(Executed)].gauge] = {}

\* C7 amended: after a successful tick in which every MetricsList handed over
\* for a gauge is empty, the gauge holds no series
C7_StaleDrop ==
    tickState = "Succeeded" =>
        \A p \in Owned(collector) :
            (\A i \in DOMAIN SentLists(p) : SentLists(p)[i] = << >>)
                => pub[p] = {}

\* a gauge that held series before the tick is empty after a tick that found
\* nothing
C7_Witness ==
    /\ tickState = "Succeeded"
    /\ \E p \in Owned(collector) :
          /\ prePub[p] # {}
          /\ SentLists(p) # << >>
          /\ \A i \in DOMAIN SentLists(p) : SentLists(p)[i] = << >>
          /\ pub[p] = {}

\* C8: never more than K workers in flight, no scope invoked twice, and a
\* successful forEach has invoked the worker exactly once per scope
C8_BoundedFanOut ==
    /\ Cardinality(InFlight) <= bound
    /\ \A s \in AllScopes : invoked[s] <= 1
    /\ tickState = "Succeeded" =>
          \A s \in AllScopes : invoked[s] = (IF s \in scopes THEN 1 ELSE 0)

\* a tick over two scopes with K = 1 succeeded
C8_Witness ==
    /\ tickState = "Succeeded"
    /\ Cardinality(scopes) = 2
    /\ bound = 1
    /\ \A s \in scopes : invoked[s] = 1

\* C9: every mutation of a gauge in a tick is made by the consumer
C9_ConsumerOnly ==
    mutator \in {"none", "consumer"}

\* C10: once the tick's context is cancelled, no gauge changes any more
C10_NoApplyAfterCancel ==
    [][cancelled => pub' = pub]_vars

\* principal identifiers named by the rows of a MetricsList
PrincipalIDs(list) == {list[i].labels.principalID : i \in 1..Len(list)}

FetchStep(s) ==
    /\ tickState = "Running"
    /\ wpc[s].at \in {"open", "loop", "principals"}
    /\ wpc'[s] # wpc[s]

\* the MetricsLists the provider call the worker of scope s is about to make
\* adds rows to
Feeds(s) ==
    IF wpc[s].at = "principals" THEN {"principal"}
    ELSE IF CurPass(s) = "roleAssignment" THEN {"roleAssignment", "principal"}
    ELSE {CurPass(s)}

\* C13 as stated: an invocation makes no provider call once it has sent a
\* closure
C13_FetchBeforeEmit ==
    [][\A s \in AllScopes : FetchStep(s) => SentBy(s) = << >>]_vars

\* C13 amended: every provider call that feeds a MetricsList happens before the
\* closure of that MetricsList is sent; the closures an invocation has sent
\* before the call belong to earlier sub-collections
C13_FetchBeforeEmitPerPass ==
    [][\A s \in AllScopes :
          FetchStep(s) =>
              \A i \in DOMAIN SentBy(s) :
                  /\ SentBy(s)[i].pass \notin Feeds(s)
                  /\ \E k \in 1..(wpc[s].pass - 1) :
                        Passes(collector)[k] = SentBy(s)[i].pass]_vars

\* an invocation has sent the closure of its first sub-collection and is in
\* the page loop of its second
C13_Witness ==
    /\ tickState = "Running"
    /\ \E s \in started :
          /\ wpc[s].pass = 2
          /\ wpc[s].at = "loop"
          /\ Len(SentBy(s)) = 1
          /\ SentBy(s)[1].pass = Passes(collector)[1]

\* the worker of scope s has sent its closure and waits for the consumer
Blocked(s) ==
    tickState = "Running" /\ wpc[s].at \in {"blocked", "blockedPrincipal"}

Transitions ==
    {<< "Idle", "Running" >>, << "Running", "Succeeded" >>,
     << "Running", "Failed" >>, << "Succeeded", "Idle" >>, << "Failed", "Idle" >>}

\* C15: the scheduler moves only along Idle -> Running -> (Succeeded | Failed)
\* -> Idle; it enters Succeeded only when the worker of every scope of the tick
\* was invoked and returned and no failure escalated; a tick with a failed
\* invocation is Failed
C15_StateMachine ==
    [][/\ tickState' # tickState => << tickState, tickState' >> \in Transitions
       /\ (tickState' = "Succeeded" /\ tickState # "Succeeded") =>
              /\ ~failure
              /\ \A s \in scopes : invoked[s] = 1 /\ wpc[s].at = "done"
       /\ (\E s \in AllScopes : wpc'[s].at = "panic") =>
              tickState' = "Failed"]_vars

\* a tick over two scopes is Failed: one invocation had returned, the other
\* failed
C15_Witness ==
    /\ tickState = "Failed"
    /\ \E s, t \in scopes : wpc[s].at = "done" /\ wpc[t].at = "panic"

\* C16: after a successful tick every series of a gauge of the collector is one
\* the collector handed over in that tick; a series of an earlier tick whose
\* resource the provider no longer reports is gone
C16_NoGrowthAcrossTicks ==
    tickState = "Succeeded" =>
        \A p \in Owned(collector) :
            \A r \in pub[p] :
                \E i \in DOMAIN SentLists(p) : r.labels \in LabelsIn(SentLists(p)[i])

\* a database tick succeeded in which a server of the tick before was no
\* longer reported while another still was
C16_Witness ==
    /\ tickState = "Succeeded"
    /\ collector = "database"
    /\ pub.database # {}
    /\ pub.databaseStatus # {}
    /\ \E r \in prePub.database : r \notin pub.database
    /\ \E r \in prePub.databaseStatus : r \notin pub.databaseStatus

\* the sub-collection whose MetricsLists the worker of scope s holds: the one
\* it is in, or the one before while the next has not created its lists
LivePasses(s) ==
    LET k == IF wpc[s].at = "open" THEN wpc[s].pass - 1 ELSE wpc[s].pass
    IN  IF k < 1 \/ wlist[s] = NoLists THEN {}
        ELSE IF Passes(collector)[k] = "roleAssignment"
             THEN {"roleAssignment", "principal"}
             ELSE {Passes(collector)[k]}

\* C17: a MetricsList captured by a closure that was sent holds, for as long as
\* its worker keeps it, exactly the rows it had when the closure was sent
C17_FrozenOnceSent ==
    \A i \in DOMAIN emitted :
        LET e == emitted[i]
        IN  e.pass \in LivePasses(e.scope) =>
                \A k \in DOMAIN e.calls :
                    e.calls[k].gauge \in DOMAIN wlist[e.scope]
                    /\ wlist[e.scope][e.calls[k].gauge] = e.calls[k].list

\* the principal closure of a scope was sent and received with a row in its
\* list, and the worker is about to send the role-assignment closure
C17_Witness ==
    /\ tickState = "Running"
    /\ \E i \in DOMAIN emitted :
          /\ emitted[i].pass = "principal"
          /\ emitted[i].calls[1].list # << >>
          /\ wpc[emitted[i].scope].at = "send"
          /\ wlist[emitted[i].scope].principal = emitted[i].calls[1].list
          /\ \E j \in DOMAIN callbackList : callbackList[j] = emitted[i]

\* the rows of the principal MetricsList that name identifier pid
RowsOf(pid) == {i \in DOMAIN infoMetric : infoMetric[i].labels.principalID = pid}

\* C18: the principal MetricsList has a row for an object the lookup returned
\* if and only if the object is of one of the four known kinds; the row
\* carries the labels of that object, and there is no other row
C18_UnknownKindsDropped ==
    ppc \in {"loop", "sent"} =>
        /\ \A i \in DOMAIN looked :
              Cardinality(RowsOf(looked[i])) =
                  (IF DirKind(looked[i]) \in KnownKinds THEN 1 ELSE 0)
        /\ \A i \in DOMAIN infoMetric :
              /\ \E j \in DOMAIN looked : looked[j] = infoMetric[i].labels.principalID
              /\ infoMetric[i].labels.principalType
                     = DirKind(infoMetric[i].labels.principalID)
              /\ infoMetric[i].labels.principalType \in KnownKinds
              /\ infoMetric[i].value = 1

\* the lookup returned a user, then an object of no known kind, then a group:
\* the list has the two rows of the user and the group
C18_Witness ==
    /\ ppc = "sent"
    /\ looked = << "p1", "p2", "p3" >>
    /\ Len(infoMetric) = 2
    /\ infoMetric[1].labels.principalID = "p1"
    /\ infoMetric[2].labels.principalID = "p3"

RECURSIVE Concat(_)
Concat(seqs) == IF seqs = << >> THEN << >> ELSE Head(seqs) \o Concat(Tail(seqs))

\* C19: the batches are consecutive slices of the identifier list that
\* cover each index once, each of 1 to c identifiers; when the closure is sent
\* there were ceil(n/c) lookups, none for n = 0, where the list sent is empty
C19_ChunkPartition ==
    ppc \in {"loop", "sent"} =>
        LET n == Len(principalIdList)
        IN  /\ \A b \in DOMAIN batches :
                  Len(batches[b]) >= 1 /\ Len(batches[b]) <= csize
            /\ Concat(batches) = SubSeq(principalIdList, 1, Min(ci, n))
            /\ ppc = "sent" =>
                  /\ Concat(batches) = principalIdList
                  /\ Len(batches) = (n + csize - 1) \div csize
                  /\ n = 0 => (batches = << >> /\ infoMetric = << >>)

\* three identifiers went out in a batch of two and a batch of one
C19_Witness ==
    /\ ppc = "sent"
    /\ Len(principalIdList) = 3
    /\ csize = 2
    /\ Len(batches) = 2
    /\ Len(batches[1]) = 2
    /\ Len(batches[2]) = 1

====
